---- MODULE Spec2Model ----
(***************************************************************************)
(* Position ledger of TradeDB: PortfolioDBManager.record_transaction and   *)
(* _upsert_position (src/portfolio_test/db_comm.py) over the two tables    *)
(* created by src/portfolio_test/create_db.py.                             *)
(*                                                                         *)
(* Numbers.  Quantities, prices and amounts are decimal numbers held as    *)
(* integers in units of 1/(Scale * grain): with grain = 1 they have four   *)
(* decimals (1.0 is 10000), the decimals round(x, 4) keeps; with grain =   *)
(* 10 they have five, so that a quantity can be finer than the rounding.   *)
(* A product of two such numbers is kept exactly, as whole units plus a    *)
(* remainder, and round(x, 4) rounds that exact product half-to-even.      *)
(* The timestamp columns are left out: no operation reads them.            *)
(*                                                                         *)
(* PortfolioService.get_total_valuation                                    *)
(* (src/portfolio_test/portfolio_service.py) reads the snapshot and the    *)
(* price table self.df.  Column names are sequences of characters, so that *)
(* the substring tests of the column search are computed.  The rows are    *)
(* the rows of self.df in its order; the date index is left out.           *)
(***************************************************************************)
EXTENDS Integers, Sequences, FiniteSets, TLC

VARIABLES
    db,     \* the committed content of the database file
    conn,   \* the content as the open connection sees it (with uncommitted writes)
    last,   \* the last call of record_transaction: its arguments and what came of it
    mark,   \* log length and cash balance after the last DEPOSIT or WITHDRAW recorded
    df,     \* self.df of the PortfolioService: the price table
    valuation,  \* what the last call made, if it was get_total_valuation, came to
    grain   \* the units of the numbers in 0.0001; it never changes

vars == <<db, conn, last, mark, df, valuation, grain>>

\* round(..., 4): four decimals
Decimals == 4
Scale == 10 ^ Decimals
\* 1.0
One == Scale * grain

\* FX_CONSTANTS.py: 9.3 and 10.92
USD_TO_SEK == 93000 * grain
EUR_TO_SEK == 109200 * grain
currency_conversion_rates ==
    [c \in {"USD", "SEK", "EUR"} |->
        CASE c = "USD" -> USD_TO_SEK
          [] c = "SEK" -> One
          [] c = "EUR" -> EUR_TO_SEK]

\* the value None of Python
None == "None"

----------------------------------------------------------------------------
\* Bounds of the model
MaxLog == 3
MaxCols == 2

\* Arguments of record_transaction the model draws from
TxTypes == {"BUY", "SELL", "DEPOSIT", "WITHDRAW"}
Tickers == {"CASH", "AAPL", "MSFT"}
Quantities == {3333, 100000}
PriceInputs == {10007, 1000000}
\* step of the write sequence at which the store raises sqlite3.Error (0: none)
FaultSteps == 0 .. 3

----------------------------------------------------------------------------
\* Arithmetic on four-decimal numbers

Abs(x) == IF x < 0 THEN -x ELSE x
Sgn(x) == IF x < 0 THEN -1 ELSE 1

\* a * b, exactly: (whole + frac / One) units
Times(a, b) ==
    LET aH == Abs(a) \div Scale
        aL == Abs(a) % Scale
        bH == Abs(b) \div Scale
        bL == Abs(b) % Scale
        s  == Sgn(a) * Sgn(b)
        hi == aH * bH * Scale + aH * bL + aL * bH + (aL * bL) \div Scale
        lo == (aL * bL) % Scale
    IN  [whole |-> s * (hi \div grain),
         frac  |-> s * ((hi % grain) * Scale + lo)]

\* round(x, 4) of an exact product, half to even: a multiple of grain units
Round4(x) ==
    LET q == Abs(x.whole) \div grain
        r == (Abs(x.whole) % grain) * One + Abs(x.frac)
        s == IF x.whole < 0 \/ x.frac < 0 THEN -1 ELSE 1
        up == 2 * r > One * grain \/ (2 * r = One * grain /\ q % 2 = 1)
    IN  s * (IF up THEN q + 1 ELSE q) * grain

\* str.upper() on the strings of the model
Upper(s) ==
    CASE s = "buy" -> "BUY"
      [] s = "sell" -> "SELL"
      [] s = "usd" -> "USD"
      [] s = "eur" -> "EUR"
      [] OTHER -> s

----------------------------------------------------------------------------
\* The store: table Trades (the log) and table Current_Positions (the snapshot)

NoRow == [present |-> FALSE, net_shares |-> 0, last_trade_price |-> 0,
          total_position_value |-> [whole |-> 0, frac |-> 0]]

EmptyStore == [Trades |-> << >>, Current_Positions |-> [t \in Tickers |-> NoRow]]

\* SELECT net_shares FROM Current_Positions WHERE ticker = 'CASH'; 0.0 without a row
CashOf(store) ==
    LET row == store.Current_Positions["CASH"]
    IN  IF row.present THEN row.net_shares ELSE 0


----------------------------------------------------------------------------
\* _upsert_position without the pin of the CASH price (line 67 as new_price = price)
UpsertUnpinned(store, ticker, share_change, price) ==
    LET row == store.Current_Positions[ticker]
        current_shares == IF row.present THEN row.net_shares ELSE 0
        new_shares == current_shares + share_change
    IN  [store EXCEPT !.Current_Positions[ticker] =
            [present |-> TRUE, net_shares |-> new_shares,
             last_trade_price |-> price,
             total_position_value |-> Times(new_shares, price)]]

\* PortfolioDBManager._upsert_position: the store after the upsert of one row
_upsert_position(store, ticker, share_change, price) ==
    LET row == store.Current_Positions[ticker]
        current_shares == IF row.present THEN row.net_shares ELSE 0
        new_shares == current_shares + share_change
        new_price == IF ticker # "CASH" THEN price ELSE One
        new_total_value == Times(new_shares, new_price)
    IN  [store EXCEPT !.Current_Positions[ticker] =
            [present |-> TRUE, net_shares |-> new_shares,
             last_trade_price |-> new_price,
             total_position_value |-> new_total_value]]

\* INSERT INTO Trades with the amount bound to the actual_price column
InsertTradeSwapped(store, tx_type, ticker, shares, actual_price, currency, total_amount) ==
    [store EXCEPT !.Trades = Append(@,
        [transaction_type |-> tx_type, ticker |-> ticker, shares |-> shares,
         actual_price |-> total_amount, currency |-> currency,
         amount |-> total_amount])]

\* INSERT INTO Trades: the id is the position in the log
InsertTrade(store, tx_type, ticker, shares, actual_price, currency, total_amount) ==
    [store EXCEPT !.Trades = Append(@,
        [transaction_type |-> tx_type, ticker |-> ticker, shares |-> shares,
         actual_price |-> actual_price, currency |-> currency,
         amount |-> total_amount])]

\* CHECK (transaction_type IN ('BUY', 'SELL', 'DEPOSIT', 'WITHDRAW')) of table Trades
TradesCheck(tx_type) == tx_type \in TxTypes

\* What a call returns or raises
Raised(e) == [raised |-> e, returned |-> "-"]
Returned(v) == [raised |-> "-", returned |-> v]
Denied == "Transaction Denied: Insufficient Cash"

\* line 110 with the tuple of line 105
CashTypeErrorAnyType(ticker, tx_type) ==
    ticker = "CASH" /\ tx_type \notin TxTypes

\* line 110: a CASH transaction that is neither a DEPOSIT nor a WITHDRAW
CashTypeError(ticker, tx_type) ==
    ticker = "CASH" /\ tx_type \notin {"DEPOSIT", "WITHDRAW"}

\* lines 123-126 without the conversion: the price is kept
ConvertKept(actual_price, currency) == actual_price

\* lines 123-126: the price in SEK of a price in a supported currency
ConvertToSEK(actual_price, currency) ==
    IF currency # "SEK"
    THEN Round4(Times(actual_price, currency_conversion_rates[currency]))
    ELSE actual_price

\* record_transaction, lines 103-131: the arguments after validation and conversion
Validate(req) ==
    LET tx_type == Upper(req.tx_type)
        price1 == IF req.ticker = "CASH" /\ tx_type \in {"DEPOSIT", "WITHDRAW"}
                  THEN One ELSE req.actual_price
        cur == Upper(req.currency)
        supported == req.currency # None /\ cur \in DOMAIN currency_conversion_rates
        actual_price == IF supported THEN ConvertToSEK(price1, cur) ELSE price1
        currency == IF req.currency = None THEN None
                    ELSE IF supported THEN "SEK" ELSE cur
    IN  [error |->
            IF req.tx_type = "" THEN "type"
            ELSE IF CashTypeError(req.ticker, tx_type) THEN "cash"
            ELSE IF req.currency # None /\ ~supported THEN "currency"
            ELSE "-",
         tx_type |-> tx_type,
         actual_price |-> actual_price,
         currency |-> currency,
         total_amount |-> Round4(Times(req.shares, actual_price))]

\* an except branch without conn.rollback(): the writes stay in the transaction
NoRollback(d, c) == c

\* conn.rollback(): the connection sees the committed content again
Rollback(d, c) == d

\* line 142 with <= for <
InsufficientCashOrEqual(current_cash, total_amount) == current_cash <= total_amount

\* line 142: the liquidity guard
InsufficientCash(current_cash, total_amount) == current_cash < total_amount

\* lines 163-168 with the sign of the BUY for both kinds
CashChangeSpend(ticker, tx_type, total_amount) ==
    IF ticker = "CASH" THEN 0
    ELSE IF tx_type \in {"BUY", "SELL"} THEN -total_amount
    ELSE 0

\* lines 163-168: the cash movement that offsets a trade
CashChange(ticker, tx_type, total_amount) ==
    IF ticker = "CASH" THEN 0
    ELSE IF tx_type = "BUY" THEN -total_amount
    ELSE IF tx_type = "SELL" THEN total_amount
    ELSE 0

\* line 156 with the sign of the BUY for every type
StockChangeAdd(tx_type, shares) == shares

\* line 156: the change of the traded row
StockChange(tx_type, shares) ==
    IF tx_type \in {"BUY", "DEPOSIT"} THEN shares ELSE -shares

\* record_transaction, lines 134-179: committed content, connection content and
\* outcome of a validated call; fault is the step at which the store raises
Write(d, c, req, v, fault) ==
    LET liquid == ~(v.tx_type \in {"BUY", "WITHDRAW"}
                    /\ InsufficientCash(CashOf(c), v.total_amount))
        c1 == InsertTrade(c, v.tx_type, req.ticker, req.shares, v.actual_price,
                          v.currency, v.total_amount)
        stock_change == StockChange(v.tx_type, req.shares)
        c2 == _upsert_position(c1, req.ticker, stock_change, v.actual_price)
        cash_change == CashChange(req.ticker, v.tx_type, v.total_amount)
        c3 == IF cash_change # 0 THEN _upsert_position(c2, "CASH", cash_change, One)
              ELSE c2
        failed == IF fault = 1 \/ ~TradesCheck(v.tx_type) THEN 1
                  ELSE IF fault = 2 THEN 2
                  ELSE IF fault = 3 /\ cash_change # 0 THEN 3
                  ELSE 0
        partial == IF failed = 1 THEN c ELSE IF failed = 2 THEN c1 ELSE c2
    IN  IF ~liquid
        THEN [db |-> d, conn |-> c, outcome |-> Returned(Denied), path |-> "denied",
              failed |-> 0]
        ELSE IF failed # 0
        THEN [db |-> d, conn |-> Rollback(d, partial), outcome |-> Returned(None),
              path |-> "rolled back", failed |-> failed]
        ELSE [db |-> c3, conn |-> c3, outcome |-> Returned(None),
              path |-> "committed", failed |-> 0]

\* record_transaction
record_transaction(d, c, req, fault) ==
    LET v == Validate(req)
    IN  IF v.error # "-"
        THEN [db |-> d, conn |-> c, outcome |-> Raised("ValueError"),
              path |-> "rejected", failed |-> 0, v |-> v]
        ELSE [v |-> v] @@ Write(d, c, req, v, fault)

----------------------------------------------------------------------------
\* Strings as sequences of characters

LowerLetters == <<"a", "b", "c", "d", "e", "f", "g", "h", "i", "j", "k", "l", "m",
                  "n", "o", "p", "q", "r", "s", "t", "u", "v", "w", "x", "y", "z">>
UpperLetters == <<"A", "B", "C", "D", "E", "F", "G", "H", "I", "J", "K", "L", "M",
                  "N", "O", "P", "Q", "R", "S", "T", "U", "V", "W", "X", "Y", "Z">>

\* str.upper(), character by character
UpperChar(c) ==
    IF \E i \in 1 .. Len(LowerLetters) : LowerLetters[i] = c
    THEN UpperLetters[CHOOSE i \in 1 .. Len(LowerLetters) : LowerLetters[i] = c]
    ELSE c
UpperStr(str) == [i \in 1 .. Len(str) |-> UpperChar(str[i])]

\* sub in str
Contains(sub, str) ==
    \E i \in 0 .. (Len(str) - Len(sub)) : SubSeq(str, i + 1, i + Len(sub)) = sub

\* the characters of a ticker of the model
Chars(ticker) ==
    CASE ticker = "AAPL" -> <<"A", "A", "P", "L">>
      [] ticker = "CASH" -> <<"C", "A", "S", "H">>

CLOSE == <<"C", "L", "O", "S", "E">>

----------------------------------------------------------------------------
\* Sums of exact products

\* x + y, with whole and frac of one sign
Plus(x, y) ==
    LET w == x.whole + y.whole
        f == x.frac + y.frac
        w1 == IF f >= One THEN w + 1 ELSE IF f <= -One THEN w - 1 ELSE w
        f1 == IF f >= One THEN f - One ELSE IF f <= -One THEN f + One ELSE f
    IN  IF w1 > 0 /\ f1 < 0 THEN [whole |-> w1 - 1, frac |-> f1 + One]
        ELSE IF w1 < 0 /\ f1 > 0 THEN [whole |-> w1 + 1, frac |-> f1 - One]
        ELSE [whole |-> w1, frac |-> f1]

\* x < y
Less(x, y) == x.whole < y.whole \/ (x.whole = y.whole /\ x.frac < y.frac)

----------------------------------------------------------------------------
\* PortfolioDBManager.get_portfolio_snapshot: the tickers of the rows with
\* net_shares != 0, by total_position_value, largest first
get_portfolio_snapshot(store) ==
    LET pos == store.Current_Positions
        held == {t \in Tickers : pos[t].present /\ pos[t].net_shares # 0}
    IN  CHOOSE seq \in [1 .. Cardinality(held) -> held] :
            /\ \A i, j \in DOMAIN seq : i # j => seq[i] # seq[j]
            /\ \A i, j \in DOMAIN seq :
                    i < j => ~Less(pos[seq[i]].total_position_value,
                                   pos[seq[j]].total_position_value)

\* a cell of the price table: a price, or NaN
NaN == [isna |-> TRUE, value |-> 0]
Price(v) == [isna |-> FALSE, value |-> v]

\* no PortfolioService
NoTable == [columns |-> << >>, rows |-> << >>]

\* line 46, df.iloc[-1]: the last row of the table
LatestRow(table) == table.rows[Len(table.rows)]

\* latest_date_row.get(col, None)
CellOf(table, row, col) ==
    IF \E i \in 1 .. Len(table.columns) : table.columns[i] = col
    THEN row[CHOOSE i \in 1 .. Len(table.columns) : table.columns[i] = col]
    ELSE NaN

\* lines 60-65 returning the first close column when there are several
PickFirstClose(candidates, close_price_candidates) ==
    IF Len(close_price_candidates) >= 1
    THEN [raised |-> FALSE, found |-> TRUE, col |-> close_price_candidates[1]]
    ELSE [raised |-> FALSE, found |-> TRUE, col |-> candidates[1]]

\* lines 60-65: the column among the candidates of a ticker
PickColumn(candidates, close_price_candidates) ==
    IF Len(close_price_candidates) > 1
    THEN [raised |-> TRUE, found |-> FALSE, col |-> << >>]
    ELSE IF Len(close_price_candidates) = 1
    THEN [raised |-> FALSE, found |-> TRUE, col |-> close_price_candidates[1]]
    ELSE [raised |-> FALSE, found |-> TRUE, col |-> candidates[1]]

\* get_total_valuation._find_price_column_for_ticker
_find_price_column_for_ticker(table, ticker) ==
    LET token == <<"(">> \o UpperStr(Chars(ticker)) \o <<")">>
        candidates == SelectSeq(table.columns, LAMBDA col : Contains(token, UpperStr(col)))
        close_price_candidates ==
            SelectSeq(candidates, LAMBDA c : Contains(CLOSE, UpperStr(c)))
    IN  IF candidates = << >>
        THEN [raised |-> FALSE, found |-> FALSE, col |-> << >>]
        ELSE PickColumn(candidates, close_price_candidates)

\* the docstring of get_total_valuation: missing tickers are treated as 0
MissingAsZero(row) == 0

\* lines 81 and 86: the last_trade_price of the ticker's row
LastTradePrice(row) == row.last_trade_price

\* lines 79-89: price_map[t]
PriceFor(store, table, t) ==
    LET found == _find_price_column_for_ticker(table, t)
        latest_price == CellOf(table, LatestRow(table), found.col)
    IN  IF ~found.found THEN LastTradePrice(store.Current_Positions[t])
        ELSE IF latest_price.isna THEN LastTradePrice(store.Current_Positions[t])
        ELSE latest_price.value

\* line 96: (net_shares * current_price).sum() over the rows from position i
RECURSIVE SumValues(_, _, _, _)
SumValues(store, portfolio, price_map, i) ==
    IF i > Len(portfolio) THEN [whole |-> 0, frac |-> 0]
    ELSE Plus(Times(store.Current_Positions[portfolio[i]].net_shares,
                    price_map[portfolio[i]]),
              SumValues(store, portfolio, price_map, i + 1))

NoValuation == [called |-> FALSE, raised |-> "-", error |-> "-",
                total |-> [whole |-> 0, frac |-> 0], price_map |-> << >>]

\* PortfolioService.get_total_valuation
get_total_valuation(store, table) ==
    LET portfolio == get_portfolio_snapshot(store)
        tickers == {portfolio[i] : i \in 1 .. Len(portfolio)}
        ambiguous == {t \in tickers : _find_price_column_for_ticker(table, t).raised}
        price_map == [t \in tickers |-> PriceFor(store, table, t)]
    IN  IF portfolio = << >>
        THEN [called |-> TRUE, raised |-> "ValueError", error |-> "empty",
              total |-> [whole |-> 0, frac |-> 0], price_map |-> << >>]
        ELSE IF ambiguous # {}
        THEN [called |-> TRUE, raised |-> "ValueError", error |-> "ambiguous",
              total |-> [whole |-> 0, frac |-> 0], price_map |-> << >>]
        ELSE [called |-> TRUE, raised |-> "-", error |-> "-",
              total |-> SumValues(store, portfolio, price_map, 1),
              price_map |-> price_map]

----------------------------------------------------------------------------
\* The calls the model makes: arguments of record_transaction and the fault
Call(t, k, q, p, c, f) ==
    [req |-> [tx_type |-> t, ticker |-> k, shares |-> q, actual_price |-> p,
              currency |-> c],
     fault |-> f]

\* trades of a stock, in SEK and in a foreign currency
TradeCalls ==
    {Call(t, "AAPL", q, p, c, 0) :
        t \in {"BUY", "SELL"}, q \in Quantities, p \in PriceInputs, c \in {"SEK", "USD"}}
\* cash movements, whatever the price passed
CashCalls ==
    {Call(t, "CASH", q, p, c, 0) :
        t \in {"DEPOSIT", "WITHDRAW"}, q \in Quantities, p \in PriceInputs,
        c \in {"SEK", "USD"}}
\* deposits and withdrawals of a stock
TransferCalls ==
    {Call(t, "AAPL", 100000, 1000000, c, 0) :
        t \in {"DEPOSIT", "WITHDRAW"}, c \in {"SEK", "USD"}}
\* types and currencies in lower case, no type, unknown type, trades of CASH
TypeCalls ==
    {Call(t, k, 100000, 1000000, c, 0) :
        t \in {"buy", "sell", "HOLD", ""}, k \in {"CASH", "AAPL"}, c \in {"usd"}}
    \cup {Call(t, "CASH", 100000, 1000000, "SEK", 0) : t \in {"BUY", "SELL"}}
\* other currencies, no currency, unknown currency
CurrencyCalls ==
    {Call("SELL", "AAPL", 100000, 10007, c, 0) : c \in {"eur", "GBP", None}}
    \cup {Call("DEPOSIT", "CASH", 100000, 10007, c, 0) : c \in {"eur", "GBP", None}}
\* calls during which the store fails at step f
FaultCalls ==
    {Call("SELL", "AAPL", 100000, 1000000, "SEK", f) : f \in FaultSteps \ {0}}
    \cup {Call("BUY", "AAPL", 3333, 10007, "SEK", f) : f \in FaultSteps \ {0}}
    \cup {Call("DEPOSIT", "CASH", 100000, 1000000, "SEK", f) : f \in FaultSteps \ {0}}

Calls == TradeCalls \cup CashCalls \cup TransferCalls \cup TypeCalls
         \cup CurrencyCalls \cup FaultCalls

NoCall == [req |-> [tx_type |-> "", ticker |-> "CASH", shares |-> 0,
                    actual_price |-> 0, currency |-> None],
           fault |-> 0, path |-> "none", outcome |-> Returned(None), failed |-> 0,
           error |-> "-", tx_type |-> "", actual_price |-> 0, currency |-> None,
           total_amount |-> 0, pre |-> EmptyStore]

\* create_and_initialize_database and PortfolioDBManager.__init__: two empty tables
Init ==
    /\ grain = 1
    /\ db = EmptyStore
    /\ conn = EmptyStore
    /\ last = NoCall
    /\ mark = [at |-> 0, cash |-> 0]
    /\ df = NoTable
    /\ valuation = NoValuation

\* One call of record_transaction, from its first line to its return or raise
Record(call) ==
    /\ last.path = "none"
    /\ Len(db.Trades) < MaxLog
    /\ \E res \in {record_transaction(db, conn, call.req, call.fault)} :
        /\ db' = res.db
        /\ conn' = res.conn
        /\ last' = [req |-> call.req, fault |-> call.fault, path |-> res.path,
                    outcome |-> res.outcome, failed |-> res.failed,
                    error |-> res.v.error, tx_type |-> res.v.tx_type,
                    actual_price |-> res.v.actual_price,
                    currency |-> res.v.currency,
                    total_amount |-> res.v.total_amount, pre |-> db]
        /\ mark' = IF res.path = "committed" /\ res.v.tx_type \in {"DEPOSIT", "WITHDRAW"}
                   THEN [at |-> Len(res.db.Trades), cash |-> CashOf(res.db)]
                   ELSE mark
        /\ valuation' = NoValuation
        /\ UNCHANGED <<df, grain>>

\* The caller goes on after the call: the outcome is dropped
Continue ==
    /\ last.path # "none"
    /\ last' = NoCall
    /\ UNCHANGED <<db, conn, mark, df, valuation, grain>>

Next ==
    \/ \E call \in Calls : Record(call)
    \/ Continue

Spec == Init /\ [][Next]_vars

----------------------------------------------------------------------------
\* The ledger read by a PortfolioService

\* column names of the price tables
CloseAAPL == <<"C", "l", "o", "s", "e", " ", "(", "A", "A", "P", "L", ")">>
AdjCloseAAPL == <<"A", "d", "j", " ">> \o CloseAAPL
PeAaplLower == <<"p", "e", " ", "(", "a", "a", "p", "l", ")">>
OpenAAPL == <<"O", "p", "e", "n", " ", "(", "A", "A", "P", "L", ")">>
CloseMSFT == <<"C", "l", "o", "s", "e", " ", "(", "M", "S", "F", "T", ")">>
ColumnNames == {CloseAAPL, AdjCloseAAPL, PeAaplLower, OpenAAPL, CloseMSFT}

\* lists of distinct columns
ColumnLists ==
    UNION {{cols \in [1 .. n -> ColumnNames] :
                \A i, j \in 1 .. n : i # j => cols[i] # cols[j]} : n \in 1 .. MaxCols}

\* rows of a table with n columns: a price that tells the column, or no price
QuoteRows(n) == [1 .. n -> {NaN}] \cup {[i \in 1 .. n |-> Price(1500000 + i * Scale)]}
                \cup {[i \in 1 .. n |-> IF i = k THEN NaN ELSE Price(1500000 + i * Scale)] :
                        k \in 1 .. n}
OlderRow(n) == [i \in 1 .. n |-> Price(1000000)]

\* the tables a service is made with: an older row and a latest one
PriceTables ==
    UNION {{[columns |-> cols, rows |-> <<OlderRow(Len(cols)), row>>] :
                row \in QuoteRows(Len(cols))} : cols \in ColumnLists}

\* the calls that fill the ledger
LedgerCalls ==
    {Call("SELL", "AAPL", 100000, 1000000, "SEK", 0),
     Call("BUY", "AAPL", 100000, 1000000, "SEK", 0),
     Call("BUY", "AAPL", 3333, 10007, "SEK", 0)}

\* PortfolioService.__init__ on a new ledger, with any price table
InitVal ==
    /\ grain = 1
    /\ db = EmptyStore
    /\ conn = EmptyStore
    /\ last = NoCall
    /\ mark = [at |-> 0, cash |-> 0]
    /\ df \in PriceTables
    /\ valuation = NoValuation

\* One call of get_total_valuation
GetTotalValuation ==
    /\ last.path = "none"
    /\ ~valuation.called
    /\ valuation' = get_total_valuation(db, df)
    /\ UNCHANGED <<db, conn, last, mark, df, grain>>

NextVal ==
    \/ \E call \in LedgerCalls : Record(call)
    \/ Continue
    \/ GetTotalValuation

SpecVal == InitVal /\ [][NextVal]_vars

----------------------------------------------------------------------------
\* The ledger with two stocks: every type on each of them, and cash movements

FrameCalls ==
    {Call(t, "AAPL", 3333, 10007, c, 0) : t \in TxTypes, c \in {"SEK", "USD"}}
    \cup {Call(t, "MSFT", 3333, 10007, "SEK", 0) : t \in TxTypes}
    \cup {Call("DEPOSIT", "CASH", 100000, 1000000, "SEK", 0),
          Call("WITHDRAW", "CASH", 3333, 1000000, "SEK", 0)}

NextFrame ==
    \/ \E call \in FrameCalls : Record(call)
    \/ Continue

SpecFrame == Init /\ [][NextFrame]_vars

----------------------------------------------------------------------------
\* The ledger with numbers of five decimals (grain = 10: 1.0 is 100000 and
\* 0.00004 is 4): positive quantities, prices that are not negative, supported
\* currencies, a store that never fails

FineCalls ==
    {Call(t, "CASH", q, 100000, c, 0) :
        t \in {"DEPOSIT", "WITHDRAW"}, q \in {4, 100000, 100004}, c \in {"SEK", "USD"}}
    \cup {Call(t, "AAPL", q, p, "SEK", 0) :
            t \in {"BUY", "SELL"}, q \in {4, 100000}, p \in {0, 100000}}

InitFine ==
    /\ grain = 10
    /\ db = EmptyStore
    /\ conn = EmptyStore
    /\ last = NoCall
    /\ mark = [at |-> 0, cash |-> 0]
    /\ df = NoTable
    /\ valuation = NoValuation

NextFine ==
    \/ \E call \in FineCalls : Record(call)
    \/ Continue

SpecFine == InitFine /\ [][NextFine]_vars

----------------------------------------------------------------------------
\* Properties of record_transaction

Called == last.path # "none"
\* the call passed the validation of lines 103-120, so that its amount is defined
Validated == Called /\ last.error = "-"
Accepted == last.path = "committed"
Unchanged == db = last.pre /\ conn = last.pre
LastTrade == db.Trades[Len(db.Trades)]
SupportedCurrency(c) == c # None /\ Upper(c) \in DOMAIN currency_conversion_rates

\* C1: a validated BUY or WITHDRAW is denied exactly when the CASH balance (0
\* without a CASH row) is strictly less than the amount; the denial is returned as
\* a value, not raised, and leaves the log and the snapshot as they were.
C1_LiquidityGuard ==
    (Validated /\ last.tx_type \in {"BUY", "WITHDRAW"}) =>
        /\ (last.outcome = Returned(Denied)) <=> (CashOf(last.pre) < last.total_amount)
        /\ last.outcome = Returned(Denied) => Unchanged

\* a BUY denied although there is cash, with the log and the snapshot untouched
C1_Witness ==
    /\ last.tx_type = "BUY"
    /\ last.outcome = Returned(Denied)
    /\ 0 < CashOf(last.pre) /\ CashOf(last.pre) < last.total_amount
    /\ Len(db.Trades) > 0
    /\ Unchanged

\* C2: a call during which the store fails at the log append, at the upsert of the
\* traded row or at the upsert of the CASH row persists nothing, leaves nothing
\* uncommitted behind, and a call that commits adds its own log entry only.
C2_AllOrNothing ==
    /\ conn = db
    /\ last.failed # 0 => Unchanged
    /\ Accepted =>
        /\ Len(db.Trades) = Len(last.pre.Trades) + 1
        /\ SubSeq(db.Trades, 1, Len(last.pre.Trades)) = last.pre.Trades

\* the store failed during the CASH upsert of a trade recorded on a ledger in use
C2_Witness ==
    /\ last.failed = 3
    /\ last.fault = 3
    /\ Len(last.pre.Trades) > 0
    /\ Unchanged

\* C3: a call whose type, in upper case, is none of the four kinds raises an error
\* before any write is attempted and changes nothing; a type that differs from a
\* kind in letter case only is treated as that kind.
C3_InvalidTypeRaises ==
    /\ (Called /\ Upper(last.req.tx_type) \notin TxTypes) =>
            /\ last.outcome = Raised("ValueError")
            /\ last.failed = 0
            /\ Unchanged
    /\ (Accepted /\ Upper(last.req.tx_type) \in TxTypes) =>
            LastTrade.transaction_type = Upper(last.req.tx_type)

\* C4: a call on CASH that is neither a DEPOSIT nor a WITHDRAW, or a call with a
\* currency code that is no key of the FX table, raises an error and changes
\* neither the log nor the snapshot.
C4_RejectedBeforeMutation ==
    (Called /\ (\/ (last.req.ticker = "CASH"
                    /\ Upper(last.req.tx_type) \notin {"DEPOSIT", "WITHDRAW"})
                \/ (last.req.currency # None
                    /\ Upper(last.req.currency) \notin DOMAIN currency_conversion_rates)))
    =>  /\ last.outcome = Raised("ValueError")
        /\ Unchanged

\* a BUY of CASH raised on a ledger that holds trades
C4_Witness ==
    /\ last.req.ticker = "CASH"
    /\ last.req.tx_type = "BUY"
    /\ last.outcome = Raised("ValueError")
    /\ Len(db.Trades) > 0
    /\ Unchanged

\* C5: a call during which the store fails ends with an error raised to the
\* caller, so that it differs from a call that succeeded.
C5_StorageFailureRaised ==
    last.failed # 0 => last.outcome.raised # "-"

\* the sum of the cash movements of the log entries after position from
RECURSIVE NetFlow(_, _)
NetFlow(trades, from) ==
    IF from >= Len(trades) THEN 0
    ELSE LET e == trades[from + 1]
         IN  (IF e.transaction_type = "BUY" THEN -e.amount
              ELSE IF e.transaction_type = "SELL" THEN e.amount
              ELSE 0)
             + NetFlow(trades, from + 1)

\* C6: after the last DEPOSIT or WITHDRAW recorded, the log holds BUYs and SELLs
\* of stocks only, and the CASH balance is the balance then, minus the amounts
\* of the BUYs, plus the amounts of the SELLs recorded since.
C6_CashConservation ==
    /\ \A i \in (mark.at + 1) .. Len(db.Trades) :
            /\ db.Trades[i].transaction_type \in {"BUY", "SELL"}
            /\ db.Trades[i].ticker # "CASH"
    /\ CashOf(db) = mark.cash + NetFlow(db.Trades, mark.at)

\* a BUY and a SELL recorded after a deposit, one of them with a rounded amount
C6_Witness ==
    /\ mark.at >= 1
    /\ mark.cash > 0
    /\ Len(db.Trades) = mark.at + 2
    /\ {db.Trades[i].transaction_type : i \in (mark.at + 1) .. Len(db.Trades)}
            = {"BUY", "SELL"}
    /\ \E i \in (mark.at + 1) .. Len(db.Trades) :
            Times(db.Trades[i].shares, db.Trades[i].actual_price).frac # 0

\* the ledger after the log is recorded again, entry by entry, on store
RECURSIVE Replay(_, _, _)
Replay(trades, i, store) ==
    IF i > Len(trades) THEN store
    ELSE LET e == trades[i]
             res == record_transaction(store, store,
                        [tx_type |-> e.transaction_type, ticker |-> e.ticker,
                         shares |-> e.shares, actual_price |-> e.actual_price,
                         currency |-> e.currency], 0)
         IN  Replay(trades, i + 1, res.db)

\* C7: recording the log again, in order, on an empty ledger gives every row of
\* the snapshot the net_shares, last_trade_price and total_position_value it has.
C7_SnapshotReplay ==
    Replay(db.Trades, 1, EmptyStore).Current_Positions = db.Current_Positions

\* a log with a cash movement in a foreign currency and a stock trade, after a
\* call that was not recorded
C7_Witness ==
    /\ Len(db.Trades) >= 2
    /\ last.path \in {"denied", "rejected", "rolled back"}
    /\ \E i \in 1 .. Len(db.Trades) :
            db.Trades[i].ticker = "CASH" /\ db.Trades[i].actual_price # One
    /\ \E i \in 1 .. Len(db.Trades) :
            db.Trades[i].ticker # "CASH" /\ db.Trades[i].transaction_type = "BUY"

\* C8: every row of the snapshot has total_position_value = net_shares *
\* last_trade_price, and the CASH row has last_trade_price 1.0, so that its value
\* is its net_shares.
C8_TotalValueIsProduct ==
    /\ \A t \in Tickers :
            LET row == db.Current_Positions[t]
            IN  row.present =>
                    row.total_position_value
                        = Times(row.net_shares, row.last_trade_price)
    /\ LET cash == db.Current_Positions["CASH"]
       IN  cash.present =>
                /\ cash.last_trade_price = One
                /\ cash.total_position_value = [whole |-> cash.net_shares, frac |-> 0]

\* cash deposited in a foreign currency next to a stock row whose value has more
\* than four decimals
C8_Witness ==
    /\ db.Current_Positions["CASH"].present
    /\ db.Current_Positions["CASH"].net_shares > 0
    /\ \E i \in 1 .. Len(db.Trades) :
            db.Trades[i].ticker = "CASH" /\ db.Trades[i].actual_price # One
    /\ db.Current_Positions["AAPL"].present
    /\ db.Current_Positions["AAPL"].total_position_value.frac # 0

\* C9: an accepted call on CASH is logged with unit price 1.0 and amount equal to
\* the quantity, whatever the price and the supported currency passed, and the
\* guard of a CASH WITHDRAW compares the balance with the quantity.
C9_CashPriceForced ==
    /\ (Accepted /\ last.req.ticker = "CASH") =>
            /\ LastTrade.actual_price = One
            /\ LastTrade.amount = last.req.shares
    /\ (Validated /\ last.req.ticker = "CASH" /\ last.tx_type = "WITHDRAW") =>
            ((last.outcome = Returned(Denied)) <=> (CashOf(last.pre) < last.req.shares))

\* C10: an accepted call on a stock in a supported currency logs the price
\* round(price * rate, 4) (the price itself for SEK) with currency SEK, gives the
\* row that price, logs the amount round(quantity * that price, 4) and moves the
\* cash by that amount for a BUY or a SELL; 10 units at 100 USD give 930.0 and
\* 9300.0.
C10_CurrencyConversion ==
    (Accepted /\ last.req.ticker # "CASH" /\ SupportedCurrency(last.req.currency)) =>
        LET c == Upper(last.req.currency)
            p == IF c = "SEK" THEN last.req.actual_price
                 ELSE Round4(Times(last.req.actual_price, currency_conversion_rates[c]))
            a == Round4(Times(last.req.shares, p))
        IN  /\ LastTrade.actual_price = p
            /\ LastTrade.currency = "SEK"
            /\ LastTrade.amount = a
            /\ db.Current_Positions[last.req.ticker].last_trade_price = p
            /\ last.tx_type = "BUY" => CashOf(db) = CashOf(last.pre) - a
            /\ last.tx_type = "SELL" => CashOf(db) = CashOf(last.pre) + a
            /\ (c = "USD" /\ last.req.shares = 100000 /\ last.req.actual_price = 1000000)
                    => (p = 9300000 /\ a = 93000000)

\* the BUY of 10 units at 100 USD, recorded
C10_Witness ==
    /\ Accepted
    /\ last.req = [tx_type |-> "BUY", ticker |-> "AAPL", shares |-> 100000,
                   actual_price |-> 1000000, currency |-> "USD"]
    /\ LastTrade.actual_price = 9300000
    /\ LastTrade.amount = 93000000

----------------------------------------------------------------------------
\* Properties of get_total_valuation

Positions == db.Current_Positions
Held == {t \in Tickers : Positions[t].present /\ Positions[t].net_shares # 0}
\* the columns of the price table whose name holds the token of ticker t
Named(t) ==
    {i \in 1 .. Len(df.columns) :
        Contains(<<"(">> \o Chars(t) \o <<")">>, UpperStr(df.columns[i]))}
\* those of them that are close-type columns
CloseNamed(t) == {i \in Named(t) : Contains(CLOSE, UpperStr(df.columns[i]))}
Ambiguous == \E t \in Held : Cardinality(CloseNamed(t)) > 1
\* the price of ticker t read from column i at the last row of the table, the
\* row's last_trade_price when the table has no price there
PriceAt(t, i) ==
    LET cell == df.rows[Len(df.rows)][i]
    IN  IF cell.isna THEN Positions[t].last_trade_price ELSE cell.value
\* the resolved price of ticker t
Resolved(t) ==
    IF Named(t) = {} THEN Positions[t].last_trade_price
    ELSE IF CloseNamed(t) # {} THEN PriceAt(t, CHOOSE i \in CloseNamed(t) : TRUE)
    ELSE PriceAt(t, CHOOSE i \in Named(t) : \A j \in Named(t) : i <= j)

RECURSIVE ResolvedValue(_)
ResolvedValue(tickers) ==
    IF tickers = {} THEN [whole |-> 0, frac |-> 0]
    ELSE LET t == CHOOSE x \in tickers : TRUE
         IN  Plus(Times(Positions[t].net_shares, Resolved(t)),
                  ResolvedValue(tickers \ {t}))

C12_AmbiguousColumn ==
    (valuation.called /\ Held # {}) =>
        /\ Ambiguous => valuation.raised = "ValueError"
        /\ ~Ambiguous =>
            /\ valuation.raised = "-"
            /\ \A t \in Held :
                /\ Cardinality(CloseNamed(t)) = 1 =>
                        valuation.price_map[t]
                            = PriceAt(t, CHOOSE i \in CloseNamed(t) : TRUE)
                /\ (Named(t) # {} /\ CloseNamed(t) = {}) =>
                        valuation.price_map[t]
                            = PriceAt(t, CHOOSE i \in Named(t) : \A j \in Named(t) : i <= j)

\* a valuation that raised on a table with two close-type columns of a stock held
C12_Witness ==
    /\ valuation.called
    /\ valuation.raised = "ValueError"
    /\ "AAPL" \in Held
    /\ Cardinality(CloseNamed("AAPL")) = 2

\* C13: a call that commits on ticker S adds the quantity to the net_shares of the
\* row of S for a BUY or a DEPOSIT and subtracts it for a SELL or a WITHDRAW;
\* when S is a stock, the CASH row loses the amount for a BUY, gains it for a
\* SELL and is left as it was for a DEPOSIT or a WITHDRAW; every other row is
\* left as it was.
C13_RecordFrame ==
    Accepted =>
        LET S == last.req.ticker
            before == last.pre.Current_Positions
            net(t) == IF before[t].present THEN before[t].net_shares ELSE 0
            signed == IF last.tx_type \in {"BUY", "DEPOSIT"} THEN last.req.shares
                      ELSE -last.req.shares
        IN  /\ Positions[S].present
            /\ Positions[S].net_shares = net(S) + signed
            /\ (S # "CASH" /\ last.tx_type = "BUY" /\ last.total_amount # 0) =>
                    /\ Positions["CASH"].present
                    /\ Positions["CASH"].net_shares = net("CASH") - last.total_amount
            /\ (S # "CASH" /\ last.tx_type = "SELL" /\ last.total_amount # 0) =>
                    /\ Positions["CASH"].present
                    /\ Positions["CASH"].net_shares = net("CASH") + last.total_amount
            /\ (S # "CASH" /\ last.tx_type \in {"DEPOSIT", "WITHDRAW"}) =>
                    Positions["CASH"] = before["CASH"]
            /\ \A t \in Tickers \ {S, "CASH"} : Positions[t] = before[t]

\* a WITHDRAW of a held stock that commits while CASH and another stock are held
C13_Witness ==
    /\ Accepted
    /\ last.tx_type = "WITHDRAW" /\ last.req.ticker = "AAPL"
    /\ last.pre.Current_Positions["AAPL"].present
    /\ Positions["AAPL"].net_shares
         = last.pre.Current_Positions["AAPL"].net_shares - last.req.shares
    /\ Positions["CASH"].present /\ Positions["CASH"].net_shares > 0
    /\ Positions["CASH"] = last.pre.Current_Positions["CASH"]
    /\ Positions["MSFT"].present /\ Positions["MSFT"].net_shares # 0
    /\ Positions["MSFT"] = last.pre.Current_Positions["MSFT"]

\* C14: whatever calls were made with positive quantities, prices that are not
\* negative and supported currencies, the net_shares of the CASH row is not
\* negative.
C14_CashNeverNegative == CashOf(db) >= 0
====
